---- MODULE Spec2Model ----
(***************************************************************************)
(* A model of the session state manager (AppStateManager: state load,     *)
(* load dependencies, writes, peer demand tracker) and of the document    *)
(* manager (AppDocsManager: document registry, full and thumbnail         *)
(* downloads, saving a document to a file).                                *)
(*                                                                         *)
(* The components share no state, so each has its own specification       *)
(* (SpecPeers, SpecState, SpecLoad, SpecStore, SpecDocs, SpecRegistry,    *)
(* SpecSave); Spec is their composition.                                   *)
(***************************************************************************)
EXTENDS Integers, Sequences, FiniteSets, TLC

VARIABLES
    \* ---- AppStateManager: peer demand tracker
    neededPeers,     \* Map<number, Set<string>>
    singlePeerMap,   \* Map<string, number>
    emitted,         \* the events the latest call dispatched, in order
    lastCall,        \* the latest tracker call: its arguments and outcome
    \* ---- AppStateManager: state load
    constructed,     \* whether the constructor has run
    storage,         \* sessionStorage: the value stored under each key
    reads,           \* how many times each key was read from sessionStorage
    loaded,          \* this.loaded: the promise of the load itself
    loadPromises,    \* this.loadPromises
    loadAllPromise,  \* this.loadAllPromise (0: not set)
    state,           \* this.state
    allPromises,     \* the promises addLoadPromise has created, in order
    deps,            \* the promises callers passed to addLoadPromise
    returnedLoad,    \* the futures loadSavedState() / getState() have returned
    \* ---- AppStateManager: writes
    writes,          \* the sessionStorage.set calls made, in order
    applied,         \* how many of them the store has applied
    lastStoreCall,   \* the latest setByKey / pushToState call
    \* ---- AppDocsManager
    docs,            \* this.docs: id -> descriptor
    thumbs,          \* this.thumbs: <<id, size>> -> the promise of the thumbnail URL
    transfers,       \* the apiFileManager.downloadFile calls made, in order
    smallTransfers,  \* the apiFileManager.downloadSmallFile calls made, in order
    saves,           \* the saveDocFile calls made, in order
    lastDocCall      \* the latest AppDocsManager call: its arguments and result

peerVars == <<neededPeers, singlePeerMap, emitted, lastCall>>

stateVars == <<constructed, storage, reads, loaded, loadPromises, loadAllPromise,
               state, allPromises, deps, returnedLoad>>

storeVars == <<writes, applied, lastStoreCall>>

docVars == <<docs, thumbs, transfers, smallTransfers, saves, lastDocCall>>

vars == <<neededPeers, singlePeerMap, emitted, lastCall,
          constructed, storage, reads, loaded, loadPromises, loadAllPromise,
          state, allPromises, deps, returnedLoad,
          writes, applied, lastStoreCall,
          docs, thumbs, transfers, smallTransfers, saves, lastDocCall>>

-----------------------------------------------------------------------------
\* Bounds

MaxPeer == 2
MaxDeps == 2          \* addLoadPromise calls made by other components
MaxTransfers == 2     \* downloadFile calls in one run
MaxSmall == 2         \* downloadSmallFile calls in one run
MaxWrites == 3        \* sessionStorage.set calls in one run
MaxSaves == 2         \* saveDocFile calls in one run

Peers == 1 .. MaxPeer                 \* peer ids are non-zero numbers
Types == {"dialog", "topMessage"}     \* consumer types
NoType == ""

-----------------------------------------------------------------------------
\* JavaScript Map

EmptyMap == << >>

MapHas(m, k) == k \in DOMAIN m

MapSet(m, k, v) == [x \in (DOMAIN m) \cup {k} |-> IF x = k THEN v ELSE m[x]]

MapDelete(m, k) == [x \in (DOMAIN m) \ {k} |-> m[x]]

-----------------------------------------------------------------------------
\* AppStateManager: peer demand tracker

\* singlePeerMap.get(type) yields undefined when there is no holder; the code
\* only tests it for truthiness, and 0 stands for that falsy result.
NoPeer == 0

SingleGet(sp, type) == IF MapHas(sp, type) THEN sp[type] ELSE NoPeer

Event(name, peerId) == [name |-> name, peerId |-> peerId]

\* The result of a call on the tracker: the two maps, the events dispatched and
\* whether the call threw.
Outcome(np, sp, ev, threw) ==
    [neededPeers |-> np, singlePeerMap |-> sp, emitted |-> ev, threw |-> threw]

\* Mutant: the evicted holder's entry is kept when its set becomes empty
\* (neededPeers.delete forgotten).
KeepPeerSingleKeepsEmptyEntry(np, sp, peerId, type) ==
    LET existsPeerId == SingleGet(sp, type) IN
    IF existsPeerId # NoPeer /\ existsPeerId # peerId
    THEN IF ~MapHas(np, existsPeerId)
         THEN Outcome(np, sp, << >>, TRUE)
         ELSE LET set == np[existsPeerId] \ {type} IN
              Outcome(MapSet(np, existsPeerId, set), MapSet(sp, type, peerId),
                      IF set = {} THEN << Event("peerUnneeded", existsPeerId) >>
                                  ELSE << >>, FALSE)
    ELSE Outcome(np, MapSet(sp, type, peerId), << >>, FALSE)

\* Mutant: the slot is handed over without releasing the previous holder's tag.
KeepPeerSingleNoRelease(np, sp, peerId, type) ==
    Outcome(np, MapSet(sp, type, peerId), << >>, FALSE)

\* keepPeerSingle(peerId, type) on the maps np, sp.  neededPeers.get of a peer
\* that is not in the map is undefined, and set.delete on it throws a
\* TypeError before anything is written.
KeepPeerSingle(np, sp, peerId, type) ==
    LET existsPeerId == SingleGet(sp, type) IN
    IF existsPeerId # NoPeer /\ existsPeerId # peerId
    THEN IF ~MapHas(np, existsPeerId)
         THEN Outcome(np, sp, << >>, TRUE)
         ELSE LET set == np[existsPeerId] \ {type} IN
              IF set = {}
              THEN Outcome(MapDelete(np, existsPeerId), MapSet(sp, type, peerId),
                           << Event("peerUnneeded", existsPeerId) >>, FALSE)
              ELSE Outcome(MapSet(np, existsPeerId, set), MapSet(sp, type, peerId),
                           << >>, FALSE)
    ELSE Outcome(np, MapSet(sp, type, peerId), << >>, FALSE)

\* Mutant: no early return for a type that is already registered.
RequestPeerOnNoDedup(np, sp, peerId, type, limit) ==
    LET old == IF MapHas(np, peerId) THEN np[peerId] ELSE {}
        np1 == MapSet(np, peerId, old \cup {type})
        ev1 == << Event("peerNeeded", peerId) >>
    IN  IF limit
        THEN LET k == KeepPeerSingle(np1, sp, peerId, type) IN
             Outcome(k.neededPeers, k.singlePeerMap, ev1 \o k.emitted, k.threw)
        ELSE Outcome(np1, sp, ev1, FALSE)

\* Mutant: 'peerNeeded' is dispatched only when the peer had no entry.
RequestPeerOnSignalsNewPeerOnly(np, sp, peerId, type, limit) ==
    IF MapHas(np, peerId) /\ type \in np[peerId]
    THEN Outcome(np, sp, << >>, FALSE)
    ELSE LET old == IF MapHas(np, peerId) THEN np[peerId] ELSE {}
             np1 == MapSet(np, peerId, old \cup {type})
             ev1 == IF MapHas(np, peerId) THEN << >>
                    ELSE << Event("peerNeeded", peerId) >>
         IN  IF limit
             THEN LET k == KeepPeerSingle(np1, sp, peerId, type) IN
                  Outcome(k.neededPeers, k.singlePeerMap, ev1 \o k.emitted, k.threw)
             ELSE Outcome(np1, sp, ev1, FALSE)

\* requestPeer(peerId, type, limit) on the maps np, sp; limit is TRUE when the
\* argument is given (limit !== undefined).
RequestPeerOn(np, sp, peerId, type, limit) ==
    IF MapHas(np, peerId) /\ type \in np[peerId]
    THEN Outcome(np, sp, << >>, FALSE)
    ELSE LET old == IF MapHas(np, peerId) THEN np[peerId] ELSE {}
             np1 == MapSet(np, peerId, old \cup {type})
             ev1 == << Event("peerNeeded", peerId) >>
         IN  IF limit
             THEN LET k == KeepPeerSingle(np1, sp, peerId, type) IN
                  Outcome(k.neededPeers, k.singlePeerMap, ev1 \o k.emitted, k.threw)
             ELSE Outcome(np1, sp, ev1, FALSE)

\* isPeerNeeded(peerId)
IsPeerNeeded(np, peerId) == MapHas(np, peerId)

Call(op, peerId, type, limit, result) ==
    [op |-> op, peerId |-> peerId, type |-> type, limit |-> limit, result |-> result]

Apply(o) ==
    /\ neededPeers' = o.neededPeers
    /\ singlePeerMap' = o.singlePeerMap
    /\ emitted' = o.emitted
    /\ UNCHANGED <<stateVars, docVars, storeVars>>

\* A call requestPeer(peerId, type, limit)
RequestPeer(peerId, type, limit) ==
    LET o == RequestPeerOn(neededPeers, singlePeerMap, peerId, type, limit) IN
    /\ Apply(o)
    /\ lastCall' = Call("requestPeer", peerId, type, limit,
                        IF o.threw THEN "threw" ELSE "returned")

\* A direct call keepPeerSingle(peerId, type) (the method is public)
KeepPeerSingleCall(peerId, type) ==
    LET o == KeepPeerSingle(neededPeers, singlePeerMap, peerId, type) IN
    /\ Apply(o)
    /\ lastCall' = Call("keepPeerSingle", peerId, type, TRUE,
                        IF o.threw THEN "threw" ELSE "returned")

\* A call isPeerNeeded(peerId)
IsPeerNeededCall(peerId) ==
    /\ lastCall' = Call("isPeerNeeded", peerId, NoType, FALSE,
                        IF IsPeerNeeded(neededPeers, peerId) THEN "true" ELSE "false")
    /\ emitted' = << >>
    /\ UNCHANGED <<neededPeers, singlePeerMap>>
    /\ UNCHANGED <<stateVars, docVars, storeVars>>

InitPeers ==
    /\ neededPeers = EmptyMap
    /\ singlePeerMap = EmptyMap
    /\ emitted = << >>
    /\ lastCall = Call("new", NoPeer, NoType, FALSE, "returned")

NextPeers ==
    \/ \E p \in Peers, t \in Types, limit \in BOOLEAN : RequestPeer(p, t, limit)
    \/ \E p \in Peers, t \in Types : KeepPeerSingleCall(p, t)
    \/ \E p \in Peers : IsPeerNeededCall(p)

-----------------------------------------------------------------------------
\* AppStateManager: state load and load dependencies

ALL_KEYS ==
    {"dialogs", "allDialogsLoaded", "chats", "users", "messages", "contactsList",
     "updates", "filters", "maxSeenMsgId", "stateCreatedTime", "recentEmoji",
     "topPeers", "recentSearch", "version", "authState", "hiddenPinnedMessages",
     "settings", "keepSigned", "drafts"}

REFRESH_KEYS ==
    {"dialogs", "allDialogsLoaded", "messages", "contactsList", "stateCreatedTime",
     "updates", "maxSeenMsgId", "filters", "topPeers"}

\* The keys loadSavedState reads: ALL_KEYS.concat('user_auth')
StoreKeys == ALL_KEYS \cup {"user_auth"}

\* undefined, as the value a promise resolves with
Undefined == "undefined"

\* this.state: undefined until the load has completed, then the snapshot
StateUndefined == [defined |-> FALSE]
StateOf(snapshot) == [defined |-> TRUE, fields |-> snapshot]

\* REFRESH_EVERY: one day, in milliseconds
REFRESH_EVERY == 24 * 60 * 60 * 1000

\* Date.now() when the callback of the load runs, and when the module was
\* evaluated (STATE_INIT.stateCreatedTime), which is not later
Now == 3 * REFRESH_EVERY
ModuleLoadTime == Now

\* The ids of the peers of the records: users have positive ids, chats
\* negative ones
PeerIds == {1, -1}

\* What sessionStorage.get(key) resolves with, and what a field of the
\* snapshot holds.  present: the value is not undefined.  val: 0 for a falsy
\* value (0, false, ''), 1 for the content STATE_INIT gives the key, 2 for
\* other content, and the timestamp itself for stateCreatedTime.  ids: the
\* peer ids a users / chats object has records for, or a recentSearch list
\* names.  holes: the peer ids an object has as own keys with the value
\* undefined.  leaf: what an object value has at the nested path setByKey
\* writes to (0: what the content came with).
Absent == [present |-> FALSE, val |-> 0, ids |-> {}, holes |-> {}, leaf |-> 0]
Value(val, ids) ==
    [present |-> TRUE, val |-> val, ids |-> ids, holes |-> {}, leaf |-> 0]

\* copy(STATE_INIT[key])
Default(key) ==
    CASE key = "maxSeenMsgId" -> Value(0, {})
      [] key = "stateCreatedTime" -> Value(ModuleLoadTime, {})
      [] OTHER -> Value(1, {})

\* {_: 'authStateSignedIn'}
AuthStateSignedIn == Value(2, {})

\* Mutant: a stored value is used only when it is truthy.
BackFillTruthyTest(arr) ==
    [key \in ALL_KEYS |-> IF arr[key].present /\ arr[key].val # 0
                          THEN arr[key] ELSE Default(key)]

\* ALL_KEYS.forEach: the stored value when it is not undefined, else a copy of
\* the default
BackFill(arr) ==
    [key \in ALL_KEYS |-> IF arr[key].present THEN arr[key] ELSE Default(key)]

\* The users (positive = TRUE) or chats object the refresh builds: one own key
\* for every peer id of that sign in state.recentSearch, holding
\* state.users[peerId] / state.chats[peerId], which is undefined when the
\* stored object has no such record.
KeptPeers(s, positive) ==
    LET listed == {id \in s["recentSearch"].ids : (id > 0) = positive}
        from == IF positive THEN s["users"] ELSE s["chats"]
    IN  [present |-> TRUE,
         val |-> IF listed = {} THEN 1 ELSE 2,
         ids |-> listed \cap from.ids,
         holes |-> listed \ from.ids,
         leaf |-> 0]

\* (state.stateCreatedTime + REFRESH_EVERY) < time
IsStale(s, time) == s["stateCreatedTime"].val + REFRESH_EVERY < time

\* Mutant: the refresh keeps the users and chats objects whole.
RefreshKeepsAllPeers(s, time) ==
    IF IsStale(s, time)
    THEN [key \in ALL_KEYS |-> IF key \in REFRESH_KEYS THEN Default(key) ELSE s[key]]
    ELSE s

\* The refresh of a stale state: REFRESH_KEYS go back to their defaults and
\* users / chats keep the peers of recentSearch.
Refresh(s, time) ==
    IF IsStale(s, time)
    THEN [key \in ALL_KEYS |->
            IF key \in REFRESH_KEYS THEN Default(key)
            ELSE IF key = "users" THEN KeptPeers(s, TRUE)
            ELSE IF key = "chats" THEN KeptPeers(s, FALSE)
            ELSE s[key]]
    ELSE s

\* validateInitObject(STATE_INIT, state): every declared field is there,
\* recursively; a falsy settings value has none of the nested groups.
ValidateInitObject(s) ==
    /\ \A key \in ALL_KEYS : s[key].present
    /\ s["settings"].val # 0

\* this.state.version = STATE_VERSION, and authState forced to signed in when
\* the auth marker read is truthy
Stamp(s, auth) ==
    LET s1 == [s EXCEPT !["version"] = Default("version")] IN
    IF auth.present /\ auth.val # 0
    THEN [s1 EXCEPT !["authState"] = AuthStateSignedIn]
    ELSE s1

\* The state the load callback has built from the values read (arr) when it
\* reaches validateInitObject, at Date.now() = time
BuildState(arr, time) == Refresh(BackFill(arr), time)

\* A promise of loadPromises: the load itself, or the i-th dependency
LoadedRef == [kind |-> "loaded", idx |-> 0]
DepRef(i) == [kind |-> "dep", idx |-> i]

\* A future loadSavedState / getState / addLoadPromise returns: the k-th
\* promise addLoadPromise built, or Promise.resolve(this.state)
AllRef(k) == [kind |-> "all", idx |-> k]
ResolvedStateRef == [kind |-> "resolved", idx |-> 0]

\* The manager's fields a call reads and writes
Mgr == [reads |-> reads, loaded |-> loaded, loadPromises |-> loadPromises,
        loadAllPromise |-> loadAllPromise, allPromises |-> allPromises]

SetMgr(m) ==
    /\ reads' = m.reads
    /\ loaded' = m.loaded
    /\ loadPromises' = m.loadPromises
    /\ loadAllPromise' = m.loadAllPromise
    /\ allPromises' = m.allPromises

\* Promise.all(this.loadPromises).then(() => this.state, () => this.state):
\* Promise.all reads the array when it is called, so the new promise waits
\* for the promises pushed so far.
NewAllPromise(lp) == [waits |-> lp, st |-> "pending", val |-> Undefined]

\* addLoadPromise once this.loaded is set: push, rebuild loadAllPromise and
\* return it.
PushLoadPromise(m, promise) ==
    LET lp == Append(m.loadPromises, promise)
        all == Append(m.allPromises, NewAllPromise(lp))
    IN  [m |-> [m EXCEPT !.loadPromises = lp, !.allPromises = all,
                         !.loadAllPromise = Len(all)],
         ret |-> Len(all)]

\* loadSavedState(): returns loadAllPromise when it is set; otherwise reads
\* every key, creates this.loaded and returns addLoadPromise(this.loaded).
LoadSavedStateOn(m) ==
    IF m.loadAllPromise # 0
    THEN [m |-> m, ret |-> m.loadAllPromise]
    ELSE PushLoadPromise(
            [m EXCEPT !.reads = [key \in StoreKeys |-> m.reads[key] + 1],
                      !.loaded = [st |-> "pending", val |-> Undefined]],
            LoadedRef)

\* addLoadPromise(promise)
AddLoadPromiseOn(m, promise) ==
    IF m.loaded.st = "none"
    THEN LoadSavedStateOn(m)
    ELSE PushLoadPromise(m, promise)

\* getState(): the future it returns
GetStateOn(m) ==
    IF ~state.defined
    THEN LET r == LoadSavedStateOn(m) IN [m |-> r.m, ret |-> AllRef(r.ret)]
    ELSE [m |-> m, ret |-> ResolvedStateRef]

\* new AppStateManager(): the constructor calls loadSavedState()
Construct ==
    /\ ~constructed
    /\ constructed' = TRUE
    /\ LET r == LoadSavedStateOn(Mgr) IN
       /\ SetMgr(r.m)
       /\ returnedLoad' = returnedLoad \cup {AllRef(r.ret)}
    /\ UNCHANGED <<peerVars, docVars, storeVars>>
    /\ UNCHANGED <<storage, state, deps>>

\* A call loadSavedState()
LoadSavedState ==
    /\ constructed
    /\ LET r == LoadSavedStateOn(Mgr) IN
       /\ SetMgr(r.m)
       /\ returnedLoad' = returnedLoad \cup {AllRef(r.ret)}
    /\ UNCHANGED <<peerVars, docVars, storeVars>>
    /\ UNCHANGED <<constructed, storage, state, deps>>

\* A call getState()
GetState ==
    /\ constructed
    /\ LET r == GetStateOn(Mgr) IN
       /\ SetMgr(r.m)
       /\ returnedLoad' = returnedLoad \cup {r.ret}
    /\ UNCHANGED <<peerVars, docVars, storeVars>>
    /\ UNCHANGED <<constructed, storage, state, deps>>

\* A call addLoadPromise(promise) by another component, with a promise of its
\* own that has not settled yet
AddLoadPromise ==
    /\ constructed
    /\ Len(deps) < MaxDeps
    /\ deps' = Append(deps, "pending")
    /\ SetMgr(AddLoadPromiseOn(Mgr, DepRef(Len(deps) + 1)).m)
    /\ UNCHANGED <<peerVars, docVars, storeVars>>
    /\ UNCHANGED <<constructed, storage, state, returnedLoad>>

\* A dependency settles
DepSettle(i, outcome) ==
    /\ deps[i] = "pending"
    /\ deps' = [deps EXCEPT ![i] = outcome]
    /\ UNCHANGED <<peerVars, docVars, storeVars>>
    /\ UNCHANGED <<constructed, storage, reads, loaded, loadPromises,
                   loadAllPromise, state, allPromises, returnedLoad>>

\* The reads have completed and the callback of loadSavedState runs: to its
\* end, where this.state is set and this.loaded resolves with it, or up to a
\* failing validation, where .catch(resolve) resolves this.loaded with the
\* error and this.state stays undefined.
LoadComplete ==
    /\ loaded.st = "pending"
    /\ LET s == BuildState(storage, Now) IN
       IF ValidateInitObject(s)
       THEN /\ state' = StateOf(Stamp(s, storage["user_auth"]))
            /\ loaded' = [st |-> "resolved", val |-> "state"]
       ELSE /\ state' = state
            /\ loaded' = [st |-> "resolved", val |-> "error"]
    /\ UNCHANGED <<peerVars, docVars, storeVars>>
    /\ UNCHANGED <<constructed, storage, reads, loadPromises, loadAllPromise,
                   allPromises, deps, returnedLoad>>

\* A read rejects or the callback throws: .catch(resolve) resolves this.loaded
\* with the error and this.state stays undefined.
LoadFail ==
    /\ loaded.st = "pending"
    /\ loaded' = [st |-> "resolved", val |-> "error"]
    /\ UNCHANGED <<peerVars, docVars, storeVars>>
    /\ UNCHANGED <<constructed, storage, reads, loadPromises, loadAllPromise,
                   state, allPromises, deps, returnedLoad>>

\* The state of a promise of loadPromises
RefState(ref) == IF ref.kind = "loaded" THEN loaded.st ELSE deps[ref.idx]

\* Promise.all has settled: every promise it waits for has resolved, or one
\* of them has rejected.
AllSettled(waits) ==
    \/ \A i \in DOMAIN waits : RefState(waits[i]) = "resolved"
    \/ \E i \in DOMAIN waits : RefState(waits[i]) = "rejected"

\* The reaction of the k-th promise of addLoadPromise runs: both handlers
\* return this.state as it is then.
AllSettle(k) ==
    /\ allPromises[k].st = "pending"
    /\ AllSettled(allPromises[k].waits)
    /\ allPromises' = [allPromises EXCEPT ![k].st = "resolved",
                                          ![k].val = IF state.defined
                                                     THEN "state" ELSE Undefined]
    /\ UNCHANGED <<peerVars, docVars, storeVars>>
    /\ UNCHANGED <<constructed, storage, reads, loaded, loadPromises,
                   loadAllPromise, state, deps, returnedLoad>>

\* sessionStorage of a first run: nothing stored
EmptyStorage == [key \in StoreKeys |-> Absent]

\* sessionStorage with every key stored: created at time created, with
\* records for the peers of peers and a recentSearch of recent
FullStorage(created, peers, recent) ==
    [key \in StoreKeys |->
        CASE key = "stateCreatedTime" -> Value(created, {})
          [] key = "users" -> Value(2, {id \in peers : id > 0})
          [] key = "chats" -> Value(2, {id \in peers : id < 0})
          [] key = "recentSearch" -> Value(IF recent = {} THEN 1 ELSE 2, recent)
          [] OTHER -> Value(2, {})]

\* What sessionStorage holds when the session starts
Storages ==
    {EmptyStorage,
     FullStorage(Now, PeerIds, PeerIds),
     [FullStorage(Now - REFRESH_EVERY - 1, PeerIds, {1}) EXCEPT !["user_auth"] = Absent]}

\* The times a stored stateCreatedTime is drawn from: a millisecond more than
\* a day ago, exactly a day ago, just now
StoredTimes == {Now - REFRESH_EVERY - 1, Now - REFRESH_EVERY, Now}

\* What sessionStorage may hold when the load is looked at by itself: nothing,
\* or every key, and either of them with one key changed to undefined, to a
\* falsy value or to some content
LoadStorages ==
    LET base == {EmptyStorage}
                \cup {FullStorage(created, peers, recent) :
                        created \in StoredTimes, peers \in SUBSET PeerIds,
                        recent \in SUBSET PeerIds}
    IN  {[st EXCEPT ![key] = v] :
            st \in base, key \in StoreKeys, v \in {Absent, Value(0, {}), Value(2, {})}}

\* The field initialisers of the class; the constructor is the first step.
InitStateOn(storages) ==
    /\ constructed = FALSE
    /\ storage \in storages
    /\ reads = [key \in StoreKeys |-> 0]
    /\ loaded = [st |-> "none", val |-> Undefined]
    /\ loadPromises = << >>
    /\ loadAllPromise = 0
    /\ state = StateUndefined
    /\ allPromises = << >>
    /\ deps = << >>
    /\ returnedLoad = {}

InitState == InitStateOn(Storages)

NextState ==
    \/ Construct
    \/ LoadSavedState
    \/ GetState
    \/ AddLoadPromise
    \/ \E i \in DOMAIN deps, outcome \in {"resolved", "rejected"} : DepSettle(i, outcome)
    \/ LoadComplete
    \/ LoadFail
    \/ \E k \in DOMAIN allPromises : AllSettle(k)

-----------------------------------------------------------------------------
\* AppStateManager: writes of the state

\* The fields the calls write and the values they write: a falsy value and
\* some content
WriteKeys == {"settings", "drafts"}
WriteValues == {Value(0, {}), Value(2, {})}

\* The result of a call: this.state, the sessionStorage.set calls made so
\* far, whether 'settings_updated' was broadcast and whether the call threw
StoreOutcome(st, ws, broadcast, threw) ==
    [state |-> st, writes |-> ws, broadcast |-> broadcast, threw |-> threw]

\* Mutant: the store is handed the value the field had before the call.
PushToStateOnWritesOld(st, ws, key, value) ==
    IF ~st.defined THEN StoreOutcome(st, ws, FALSE, TRUE)
    ELSE StoreOutcome(StateOf([st.fields EXCEPT ![key] = value]),
                      Append(ws, [key |-> key, value |-> st.fields[key]]),
                      FALSE, FALSE)

\* pushToState(key, value): this.state[key] = value throws a TypeError while
\* this.state is undefined; otherwise the field is assigned and
\* sessionStorage.set({[key]: value}) is called, its promise dropped.
PushToStateOn(st, ws, key, value) ==
    IF ~st.defined THEN StoreOutcome(st, ws, FALSE, TRUE)
    ELSE StoreOutcome(StateOf([st.fields EXCEPT ![key] = value]),
                      Append(ws, [key |-> key, value |-> value]),
                      FALSE, FALSE)

\* setDeepProperty(this.state, key, value) can be carried out: there is a
\* state, and the object a nested path goes through is not a primitive
CanSetDeepProperty(st, first, nested) ==
    /\ st.defined
    /\ nested => st.fields[first].val # 0

\* setDeepProperty(this.state, key, value): key is first, or first + '.leaf'
\* when nested
SetDeepProperty(s, first, nested, value) ==
    IF nested THEN [s EXCEPT ![first].leaf = value.val]
    ELSE [s EXCEPT ![first] = value]

\* setByKey(key, value): the deep write, the broadcast of 'settings_updated',
\* then pushToState(first, this.state[first])
SetByKeyOn(st, ws, first, nested, value) ==
    IF ~CanSetDeepProperty(st, first, nested) THEN StoreOutcome(st, ws, FALSE, TRUE)
    ELSE LET s1 == SetDeepProperty(st.fields, first, nested, value)
             o == PushToStateOn(StateOf(s1), ws, first, s1[first])
         IN  StoreOutcome(o.state, o.writes, TRUE, o.threw)

StoreCall(op, key, nested, value, broadcast, threw) ==
    [op |-> op, key |-> key, nested |-> nested, value |-> value,
     broadcast |-> broadcast, threw |-> threw]

\* lastStoreCall after a step that is no call of setByKey / pushToState
NoStoreCall == StoreCall("none", "", FALSE, Absent, FALSE, FALSE)

\* A call pushToState(key, value)
PushToState(key, value) ==
    /\ constructed
    /\ Len(writes) < MaxWrites
    /\ LET o == PushToStateOn(state, writes, key, value) IN
       /\ state' = o.state
       /\ writes' = o.writes
       /\ lastStoreCall' = StoreCall("pushToState", key, FALSE, value, o.broadcast, o.threw)
    /\ UNCHANGED <<peerVars, docVars>>
    /\ UNCHANGED <<constructed, storage, reads, loaded, loadPromises,
                   loadAllPromise, allPromises, deps, returnedLoad, applied>>

\* A call setByKey(first, value), or setByKey(first + '.leaf', value) when
\* nested
SetByKey(first, nested, value) ==
    /\ constructed
    /\ Len(writes) < MaxWrites
    /\ LET o == SetByKeyOn(state, writes, first, nested, value) IN
       /\ state' = o.state
       /\ writes' = o.writes
       /\ lastStoreCall' = StoreCall("setByKey", first, nested, value, o.broadcast, o.threw)
    /\ UNCHANGED <<peerVars, docVars>>
    /\ UNCHANGED <<constructed, storage, reads, loaded, loadPromises,
                   loadAllPromise, allPromises, deps, returnedLoad, applied>>

\* The store applies the next sessionStorage.set call: the calls are queued
\* for persistence in call order.
StoreApply ==
    /\ applied < Len(writes)
    /\ storage' = [storage EXCEPT ![writes[applied + 1].key] = writes[applied + 1].value]
    /\ applied' = applied + 1
    /\ lastStoreCall' = NoStoreCall
    /\ UNCHANGED <<peerVars, docVars>>
    /\ UNCHANGED <<constructed, reads, loaded, loadPromises, loadAllPromise,
                   state, allPromises, deps, returnedLoad, writes>>

InitStore ==
    /\ writes = << >>
    /\ applied = 0
    /\ lastStoreCall = NoStoreCall

NextStore ==
    \/ \E key \in WriteKeys, value \in WriteValues : PushToState(key, value)
    \/ \E first \in WriteKeys, nested \in BOOLEAN, value \in WriteValues :
          SetByKey(first, nested, value)
    \/ StoreApply

-----------------------------------------------------------------------------
\* AppDocsManager: registry

DocIds == {42, 43}
ThumbSizes == {"m"}
NoDoc == 0

Attr(tag) == [tag |-> tag, file_name |-> "", voice |-> FALSE, round_message |-> FALSE]

\* A thumbnail of a document: whether it carries its bytes
Thumb(bytes) == [bytes |-> bytes]

\* apiDoc as the server sends it; thumbs is << >> when the field is missing
ApiDoc(kind, mime_type, attributes, apiThumbs) ==
    [kind |-> kind, mime_type |-> mime_type, attributes |-> attributes,
     thumbs |-> apiThumbs]

\* The documents the calls are made with
ApiDocs ==
    {ApiDoc("document", "application/pdf",
            << [Attr("documentAttributeFilename") EXCEPT !.file_name = "a.pdf"] >>, << >>),
     ApiDoc("document", "video/mp4",
            << Attr("documentAttributeVideo") >>, << Thumb(FALSE) >>),
     ApiDoc("documentEmpty", "", << >>, << >>)}

\* The attributes the documents of the registry checks are made of, and the
\* lists of at most two of them, in either order
RegistryAttrs ==
    {[Attr("documentAttributeFilename") EXCEPT !.file_name = "a.pdf"],
     Attr("documentAttributeAudio"),
     Attr("documentAttributeVideo"),
     Attr("documentAttributeSticker"),
     Attr("documentAttributeImageSize"),
     Attr("documentAttributeAnimated")}

AttrLists ==
    {<< >>} \cup {<<a>> : a \in RegistryAttrs}
            \cup {<<a, b>> : a \in RegistryAttrs, b \in RegistryAttrs}

\* The documents the registry is checked with
RegistryDocs ==
    {ApiDoc("document", mime_type, attributes, apiThumbs) :
        mime_type \in {"", "video/mp4", "image/webp"},
        attributes \in AttrLists,
        apiThumbs \in {<< >>, << Thumb(FALSE) >>, << Thumb(TRUE) >>}}

\* The id the registry is checked with
RegistryIds == {42}

\* The descriptor before its attributes are read; type "" and sticker 0 stand
\* for the missing (falsy) fields.
NewDoc(apiDoc) ==
    [kind |-> apiDoc.kind, mime_type |-> apiDoc.mime_type, thumbs |-> apiDoc.thumbs,
     type |-> "", sticker |-> 0, animated |-> FALSE, file_name |-> "",
     downloaded |-> FALSE, url |-> FALSE]

\* One round of apiDoc.attributes.forEach: the switch on attribute._
ApplyAttribute(doc, attribute) ==
    CASE attribute.tag = "documentAttributeFilename" ->
            [doc EXCEPT !.file_name = attribute.file_name]
      [] attribute.tag = "documentAttributeAudio" ->
            [doc EXCEPT !.type = IF attribute.voice THEN "voice" ELSE "audio"]
      [] attribute.tag = "documentAttributeVideo" ->
            [doc EXCEPT !.type = IF doc.thumbs # << >> /\ attribute.round_message
                                 THEN "round" ELSE "video"]
      [] attribute.tag = "documentAttributeSticker" ->
            IF doc.mime_type = "image/webp"
            THEN [doc EXCEPT !.type = "sticker", !.sticker = 1]
            ELSE doc
      [] attribute.tag = "documentAttributeAnimated" ->
            [doc EXCEPT !.type = IF doc.mime_type \in {"image/gif", "video/mp4"}
                                    /\ doc.thumbs # << >>
                                 THEN "gif" ELSE doc.type,
                        !.animated = TRUE]
      [] OTHER -> doc

RECURSIVE ApplyAttributes(_, _)
ApplyAttributes(doc, attributes) ==
    IF attributes = << >> THEN doc
    ELSE ApplyAttributes(ApplyAttribute(doc, Head(attributes)), Tail(attributes))

\* if(!apiDoc.mime_type) switch(apiDoc.type)
DefaultMimeType(type) ==
    CASE type \in {"gif", "video", "round"} -> "video/mp4"
      [] type = "sticker" -> "image/webp"
      [] type = "audio" -> "audio/mpeg"
      [] type = "voice" -> "audio/ogg"
      [] OTHER -> "application/octet-stream"

\* The animated sticker rule that follows the attributes
AnimatedSticker(doc) ==
    IF doc.mime_type = "application/x-tgsticker" /\ doc.file_name = "AnimatedSticker.tgs"
    THEN [doc EXCEPT !.type = "sticker", !.animated = TRUE, !.sticker = 2]
    ELSE doc

\* saveDoc for an id that is not in the registry
Normalize(apiDoc) ==
    LET d1 == ApplyAttributes(NewDoc(apiDoc), apiDoc.attributes)
        d2 == IF d1.mime_type = "" THEN [d1 EXCEPT !.mime_type = DefaultMimeType(d1.type)]
              ELSE d1
    IN  AnimatedSticker(d2)

\* saveDoc for an id that is in the registry: only the thumbs are merged
MergeDoc(d, apiDoc) ==
    IF apiDoc.thumbs = << >> THEN d
    ELSE IF d.thumbs = << >> THEN [d EXCEPT !.thumbs = apiDoc.thumbs]
    ELSE IF apiDoc.thumbs[1].bytes /\ ~d.thumbs[1].bytes
         THEN [d EXCEPT !.thumbs = << apiDoc.thumbs[1] >> \o d.thumbs]
         ELSE d

\* saveDoc(apiDoc) with apiDoc.id = id, on the registry ds
SaveDocOn(ds, id, apiDoc) ==
    IF MapHas(ds, id) THEN MapSet(ds, id, MergeDoc(ds[id], apiDoc))
    ELSE MapSet(ds, id, Normalize(apiDoc))

-----------------------------------------------------------------------------
\* AppDocsManager: downloads

\* The future a call returns: Promise.reject(), Promise.resolve(null),
\* Promise.resolve(cachedBlob), the promise of the n-th downloadFile call, or
\* the promise of the URL of the n-th downloadSmallFile call
Rejected == [kind |-> "rejected", idx |-> 0]
ResolvedNull == [kind |-> "resolvedNull", idx |-> 0]
ResolvedBlob == [kind |-> "resolvedBlob", idx |-> 0]
TransferRef(n) == [kind |-> "downloadFile", idx |-> n]
ThumbRef(n) == [kind |-> "thumbUrl", idx |-> n]
NoFuture == [kind |-> "none", idx |-> 0]

\* this.thumbs is keyed by doc.id + '-' + thumbSize
ThumbKey(id, thumbSize) == <<id, thumbSize>>

\* The manager's fields a call reads and writes
Docs == [docs |-> docs, thumbs |-> thumbs, transfers |-> transfers,
         smallTransfers |-> smallTransfers]

SetDocs(m) ==
    /\ docs' = m.docs
    /\ thumbs' = m.thumbs
    /\ transfers' = m.transfers
    /\ smallTransfers' = m.smallTransfers

\* apiFileManager.downloadFile(...) is called: a transfer of its own promise
NewTransfer(id, toFileEntry) == [id |-> id, st |-> "pending"]

\* apiFileManager.downloadSmallFile(...) is called; thumbs keeps
\* promise.then(blob => URL.createObjectURL(blob))
NewSmallTransfer(id, thumbSize) ==
    [id |-> id, thumbSize |-> thumbSize, st |-> "pending"]

\* Mutant: a table of running downloads per id; a call made while one is in
\* flight returns its promise.
DownloadDocOnDedups(m, id, toFileEntry, cachedBlob) ==
    LET doc == m.docs[id]
        running == {n \in DOMAIN m.transfers :
                       m.transfers[n].id = id /\ m.transfers[n].st = "pending"}
    IN
    IF doc.kind = "documentEmpty" THEN [m |-> m, ret |-> Rejected]
    ELSE IF doc.downloaded /\ ~toFileEntry /\ doc.url THEN [m |-> m, ret |-> ResolvedNull]
    ELSE IF doc.downloaded /\ ~toFileEntry /\ cachedBlob THEN [m |-> m, ret |-> ResolvedBlob]
    ELSE IF running # {} THEN [m |-> m, ret |-> TransferRef(CHOOSE n \in running : TRUE)]
    ELSE LET all == Append(m.transfers, NewTransfer(id, toFileEntry)) IN
         [m |-> [m EXCEPT !.transfers = all], ret |-> TransferRef(Len(all))]

\* downloadDoc(id, toFileEntry); cachedBlob: whether
\* apiFileManager.getCachedFile has the file, when it is asked.
DownloadDocOn(m, id, toFileEntry, cachedBlob) ==
    LET doc == m.docs[id] IN
    IF doc.kind = "documentEmpty" THEN [m |-> m, ret |-> Rejected]
    ELSE IF doc.downloaded /\ ~toFileEntry /\ doc.url THEN [m |-> m, ret |-> ResolvedNull]
    ELSE IF doc.downloaded /\ ~toFileEntry /\ cachedBlob THEN [m |-> m, ret |-> ResolvedBlob]
    ELSE LET all == Append(m.transfers, NewTransfer(id, toFileEntry)) IN
         [m |-> [m EXCEPT !.transfers = all], ret |-> TransferRef(Len(all))]

\* Mutant: the cache of thumbnail promises is not consulted.
DownloadDocThumbOnNoMemo(m, id, thumbSize) ==
    LET doc == m.docs[id]
        key == ThumbKey(id, thumbSize)
    IN
    IF doc.kind = "documentEmpty" THEN [m |-> m, ret |-> Rejected]
    ELSE LET all == Append(m.smallTransfers, NewSmallTransfer(id, thumbSize)) IN
         [m |-> [m EXCEPT !.smallTransfers = all,
                          !.thumbs = MapSet(m.thumbs, key, Len(all))],
          ret |-> ThumbRef(Len(all))]

\* Mutant: no test for an empty document.
DownloadDocThumbOnNoEmptyTest(m, id, thumbSize) ==
    LET key == ThumbKey(id, thumbSize) IN
    IF MapHas(m.thumbs, key) THEN [m |-> m, ret |-> ThumbRef(m.thumbs[key])]
    ELSE LET all == Append(m.smallTransfers, NewSmallTransfer(id, thumbSize)) IN
         [m |-> [m EXCEPT !.smallTransfers = all,
                          !.thumbs = MapSet(m.thumbs, key, Len(all))],
          ret |-> ThumbRef(Len(all))]

\* downloadDocThumb(id, thumbSize)
DownloadDocThumbOn(m, id, thumbSize) ==
    LET doc == m.docs[id]
        key == ThumbKey(id, thumbSize)
    IN
    IF MapHas(m.thumbs, key) THEN [m |-> m, ret |-> ThumbRef(m.thumbs[key])]
    ELSE IF doc.kind = "documentEmpty" THEN [m |-> m, ret |-> Rejected]
    ELSE LET all == Append(m.smallTransfers, NewSmallTransfer(id, thumbSize)) IN
         [m |-> [m EXCEPT !.smallTransfers = all,
                          !.thumbs = MapSet(m.thumbs, key, Len(all))],
          ret |-> ThumbRef(Len(all))]

\* hasDownloadedThumb(id, thumbSize)
HasDownloadedThumb(m, id, thumbSize) == MapHas(m.thumbs, ThumbKey(id, thumbSize))

\* The success handler downloadDoc registers on the promise of downloadFile
OnDownloaded(doc) ==
    [doc EXCEPT !.downloaded = TRUE,
                !.url = IF doc.type # "" /\ doc.sticker # 2 THEN TRUE ELSE doc.url]

DocCall(op, id, thumbSize, toFileEntry, ret) ==
    [op |-> op, id |-> id, thumbSize |-> thumbSize, toFileEntry |-> toFileEntry,
     ret |-> ret]

\* lastDocCall after a step that is no call of the manager
NoDocCall == DocCall("none", NoDoc, "", FALSE, NoFuture)

\* A call saveDoc(apiDoc) with apiDoc.id = id
SaveDoc(id, apiDoc) ==
    /\ docs' = SaveDocOn(docs, id, apiDoc)
    /\ lastDocCall' = NoDocCall
    /\ UNCHANGED <<thumbs, transfers, smallTransfers, saves>>
    /\ UNCHANGED <<peerVars, stateVars, storeVars>>

\* A call downloadDoc(id, toFileEntry) for a document of the registry
DownloadDoc(id, toFileEntry, cachedBlob) ==
    /\ MapHas(docs, id)
    /\ LET r == DownloadDocOn(Docs, id, toFileEntry, cachedBlob) IN
       /\ Len(r.m.transfers) <= MaxTransfers
       /\ SetDocs(r.m)
       /\ lastDocCall' = DocCall("downloadDoc", id, "", toFileEntry, r.ret)
    /\ UNCHANGED saves
    /\ UNCHANGED <<peerVars, stateVars, storeVars>>

\* A call downloadDocThumb(id, thumbSize) for a document of the registry
DownloadDocThumb(id, thumbSize) ==
    /\ MapHas(docs, id)
    /\ LET r == DownloadDocThumbOn(Docs, id, thumbSize) IN
       /\ Len(r.m.smallTransfers) <= MaxSmall
       /\ SetDocs(r.m)
       /\ lastDocCall' = DocCall("downloadDocThumb", id, thumbSize, FALSE, r.ret)
    /\ UNCHANGED saves
    /\ UNCHANGED <<peerVars, stateVars, storeVars>>

\* What saveDocFile registered on the promise it got from downloadDoc runs
\* when the promise resolves: writer.close() when it streams into a writer,
\* FileManager.download(blob, ...) otherwise.  Nothing is registered for a
\* rejection.
OnSaveResolved(save, blob) ==
    IF save.sink THEN [save EXCEPT !.closed = @ + 1]
    ELSE [save EXCEPT !.handed = Append(@, blob)]

\* Mutant: the document is marked downloaded when the transfer fails, too.
TransferSettlesMarksFailed(n, outcome) ==
    /\ transfers[n].st = "pending"
    /\ transfers' = [transfers EXCEPT ![n].st = outcome]
    /\ docs' = [docs EXCEPT ![transfers[n].id] = OnDownloaded(@)]
    /\ saves' = [s \in DOMAIN saves |->
                    IF saves[s].promise = TransferRef(n) /\ outcome = "resolved"
                    THEN OnSaveResolved(saves[s], "blob") ELSE saves[s]]
    /\ lastDocCall' = NoDocCall
    /\ UNCHANGED <<thumbs, smallTransfers>>
    /\ UNCHANGED <<peerVars, stateVars, storeVars>>

\* The n-th downloadFile promise settles, resolved with the blob or rejected,
\* and its reactions run in the order they were registered: the handlers of
\* downloadDoc (success marks the document, failure is logged), then what
\* saveDocFile registered on the promise.
TransferSettles(n, outcome) ==
    /\ transfers[n].st = "pending"
    /\ transfers' = [transfers EXCEPT ![n].st = outcome]
    /\ docs' = IF outcome = "resolved"
               THEN [docs EXCEPT ![transfers[n].id] = OnDownloaded(@)]
               ELSE docs
    /\ saves' = [s \in DOMAIN saves |->
                    IF saves[s].promise = TransferRef(n) /\ outcome = "resolved"
                    THEN OnSaveResolved(saves[s], "blob") ELSE saves[s]]
    /\ lastDocCall' = NoDocCall
    /\ UNCHANGED <<thumbs, smallTransfers>>
    /\ UNCHANGED <<peerVars, stateVars, storeVars>>

\* Mutant: the entry of this.thumbs is dropped when its transfer fails.
SmallTransferSettlesForgetsFailed(n, outcome) ==
    /\ smallTransfers[n].st = "pending"
    /\ smallTransfers' = [smallTransfers EXCEPT ![n].st = outcome]
    /\ thumbs' = IF outcome = "rejected"
                 THEN MapDelete(thumbs, ThumbKey(smallTransfers[n].id,
                                                 smallTransfers[n].thumbSize))
                 ELSE thumbs
    /\ lastDocCall' = NoDocCall
    /\ UNCHANGED <<docs, transfers, saves>>
    /\ UNCHANGED <<peerVars, stateVars, storeVars>>

\* The n-th downloadSmallFile promise settles, and with it the promise of the
\* URL that thumbs keeps: resolved with URL.createObjectURL(blob), or rejected.
SmallTransferSettles(n, outcome) ==
    /\ smallTransfers[n].st = "pending"
    /\ smallTransfers' = [smallTransfers EXCEPT ![n].st = outcome]
    /\ lastDocCall' = NoDocCall
    /\ UNCHANGED <<docs, thumbs, transfers, saves>>
    /\ UNCHANGED <<peerVars, stateVars, storeVars>>

\* doc.mime_type.split('/')[1], for the mime types of the documents above
MimeSubtype(mime_type) ==
    CASE mime_type = "application/pdf" -> "pdf"
      [] mime_type = "video/mp4" -> "mp4"
      [] mime_type = "image/webp" -> "webp"
      [] mime_type = "application/octet-stream" -> "octet-stream"
      [] OTHER -> ""

\* getFileName(doc): the file name of the document, or one made of its type,
\* its id and the extension of its mime type (the parts stand for their
\* concatenation)
GetFileName(doc, id) ==
    IF doc.file_name # "" THEN << doc.file_name >>
    ELSE << "t_", IF doc.type # "" THEN doc.type ELSE "file", id,
            IF MimeSubtype(doc.mime_type) = "octet-stream" THEN ""
            ELSE MimeSubtype(doc.mime_type) >>

\* A saveDocFile(id) call that awaits writer.ready.  sink: whether downloadDoc
\* was given the writer; promise: what downloadDoc returned; closed: the
\* writer.close() calls; handed: the blobs given to FileManager.download.
NewSave(id, fileName) ==
    [id |-> id, fileName |-> fileName, st |-> "awaiting", sink |-> FALSE,
     promise |-> NoFuture, closed |-> 0, handed |-> << >>]

\* The reaction saveDocFile registers on a promise that is already resolved
\* runs at once.
ReactNow(save) ==
    IF save.promise = ResolvedNull THEN OnSaveResolved(save, "null")
    ELSE IF save.promise = ResolvedBlob THEN OnSaveResolved(save, "blob")
    ELSE save

\* The try branch of saveDocFile after writer.ready:
\* downloadDoc(docID, writer), with writer.close() registered on its promise
SaveStreamOn(m, save, cachedBlob) ==
    LET r == DownloadDocOn(m, save.id, TRUE, cachedBlob) IN
    [m |-> r.m,
     save |-> ReactNow([save EXCEPT !.st = "returned", !.sink = TRUE,
                                    !.promise = r.ret])]

\* Mutant: a save target that cannot be had fails the call.
SaveFallbackOnSurfaces(m, save, cachedBlob) ==
    [m |-> m, save |-> [save EXCEPT !.st = "returned", !.promise = Rejected]]

\* The catch branch of saveDocFile: downloadDoc(docID), with
\* FileManager.download registered on its promise
SaveFallbackOn(m, save, cachedBlob) ==
    LET r == DownloadDocOn(m, save.id, FALSE, cachedBlob) IN
    [m |-> r.m,
     save |-> ReactNow([save EXCEPT !.st = "returned", !.promise = r.ret])]

\* A call saveDocFile(id) for a document of the registry, up to its first
\* await: FileManager.chooseSaveFile returns a writer (acquired) or throws,
\* and then the catch branch runs.
SaveDocFile(id, acquired, cachedBlob) ==
    /\ MapHas(docs, id)
    /\ Len(saves) < MaxSaves
    /\ LET save == NewSave(id, GetFileName(docs[id], id))
           r == IF acquired THEN [m |-> Docs, save |-> save]
                ELSE SaveFallbackOn(Docs, save, cachedBlob)
       IN  /\ Len(r.m.transfers) <= MaxTransfers
           /\ SetDocs(r.m)
           /\ saves' = Append(saves, r.save)
    /\ lastDocCall' = NoDocCall
    /\ UNCHANGED <<peerVars, stateVars, storeVars>>

\* writer.ready of the s-th saveDocFile call settles and the call goes on:
\* with the try branch when it resolves, with the catch branch when it
\* rejects.
WriterReady(s, outcome, cachedBlob) ==
    /\ saves[s].st = "awaiting"
    /\ LET r == IF outcome = "resolved" THEN SaveStreamOn(Docs, saves[s], cachedBlob)
                ELSE SaveFallbackOn(Docs, saves[s], cachedBlob)
       IN  /\ Len(r.m.transfers) <= MaxTransfers
           /\ SetDocs(r.m)
           /\ saves' = [saves EXCEPT ![s] = r.save]
    /\ lastDocCall' = NoDocCall
    /\ UNCHANGED <<peerVars, stateVars, storeVars>>

InitDocs ==
    /\ docs = EmptyMap
    /\ thumbs = EmptyMap
    /\ transfers = << >>
    /\ smallTransfers = << >>
    /\ saves = << >>
    /\ lastDocCall = NoDocCall

NextDocs ==
    \/ \E id \in DocIds, apiDoc \in ApiDocs : SaveDoc(id, apiDoc)
    \/ \E id \in DocIds, toFileEntry \in BOOLEAN, cachedBlob \in BOOLEAN :
          DownloadDoc(id, toFileEntry, cachedBlob)
    \/ \E id \in DocIds, thumbSize \in ThumbSizes : DownloadDocThumb(id, thumbSize)
    \/ \E n \in DOMAIN transfers, outcome \in {"resolved", "rejected"} :
          TransferSettles(n, outcome)
    \/ \E n \in DOMAIN smallTransfers, outcome \in {"resolved", "rejected"} :
          SmallTransferSettles(n, outcome)

\* saveDocFile and what it depends on
NextSave ==
    \/ \E id \in DocIds, apiDoc \in ApiDocs : SaveDoc(id, apiDoc)
    \/ \E id \in DocIds, acquired \in BOOLEAN, cachedBlob \in BOOLEAN :
          SaveDocFile(id, acquired, cachedBlob)
    \/ \E s \in DOMAIN saves, outcome \in {"resolved", "rejected"},
          cachedBlob \in BOOLEAN : WriterReady(s, outcome, cachedBlob)
    \/ \E n \in DOMAIN transfers, outcome \in {"resolved", "rejected"} :
          TransferSettles(n, outcome)

-----------------------------------------------------------------------------
\* Properties of the downloads (checked under SpecDocs)

\* The step is a call downloadDoc(id, ...)
IsDownloadDocStep(id) ==
    /\ lastDocCall'.op = "downloadDoc"
    /\ lastDocCall'.id = id

\* The step is a call downloadDocThumb(id, thumbSize)
IsDownloadDocThumbStep(id, thumbSize) ==
    /\ lastDocCall'.op = "downloadDocThumb"
    /\ lastDocCall'.id = id
    /\ lastDocCall'.thumbSize = thumbSize

\* The downloadFile calls for a document that have not settled
InFlight(id) ==
    {n \in DOMAIN transfers : transfers[n].id = id /\ transfers[n].st = "pending"}

\* The downloadSmallFile calls for a thumbnail that have not settled
SmallInFlight(id, thumbSize) ==
    {n \in DOMAIN smallTransfers :
        /\ smallTransfers[n].id = id
        /\ smallTransfers[n].thumbSize = thumbSize
        /\ smallTransfers[n].st = "pending"}

\* The document is in the registry, is not empty and has no cached copy
NotCached(id) ==
    /\ MapHas(docs, id)
    /\ docs[id].kind # "documentEmpty"
    /\ ~docs[id].downloaded

\* C1 as claimed: a downloadDoc call for a document with no cached copy,
\* made while a transfer for that document has not settled, makes no further
\* downloadFile call and returns the future of the transfer in flight, so
\* that one transfer serves all the callers.
C1_OneTransferForConcurrentCalls ==
    [][\A id \in DocIds :
          (IsDownloadDocStep(id) /\ NotCached(id) /\ InFlight(id) # {})
          => /\ transfers' = transfers
             /\ \E n \in InFlight(id) : lastDocCall'.ret = TransferRef(n)]_vars

\* C1 as amended: every downloadDoc call for a document with no cached copy
\* makes a downloadFile call of its own, also while earlier transfers for the
\* document are in flight, and returns the promise of that call.
C1_OneTransferPerCall ==
    [][\A id \in DocIds :
          (IsDownloadDocStep(id) /\ NotCached(id))
          => /\ Len(transfers') = Len(transfers) + 1
             /\ SubSeq(transfers', 1, Len(transfers)) = transfers
             /\ transfers'[Len(transfers')].id = id
             /\ transfers'[Len(transfers')].st = "pending"
             /\ lastDocCall'.ret = TransferRef(Len(transfers'))]_vars

\* C1 witness: a downloadDoc call has just made the second of two transfers
\* of one document that are in flight together.
C1_Witness ==
    /\ lastDocCall.op = "downloadDoc"
    /\ lastDocCall.ret = TransferRef(2)
    /\ InFlight(lastDocCall.id) = {1, 2}

\* Every downloadSmallFile call made is the one this.thumbs keeps for its key,
\* so no key has had two.
ThumbsKeepEveryTransfer ==
    \A n \in DOMAIN smallTransfers :
        LET key == ThumbKey(smallTransfers[n].id, smallTransfers[n].thumbSize) IN
        MapHas(thumbs, key) /\ thumbs[key] = n

\* C2: for every (id, size) at most one downloadSmallFile transfer is in
\* flight at any time, and a downloadDocThumb call made when this.thumbs has
\* the key (the transfer outstanding or settled) makes no transfer and returns
\* the promise this.thumbs keeps.
C2_OneThumbTransferPerKey ==
    /\ [](\A id \in DocIds, thumbSize \in ThumbSizes :
             Cardinality(SmallInFlight(id, thumbSize)) <= 1)
    /\ []ThumbsKeepEveryTransfer
    /\ [][\A id \in DocIds, thumbSize \in ThumbSizes :
            (IsDownloadDocThumbStep(id, thumbSize)
               /\ MapHas(thumbs, ThumbKey(id, thumbSize)))
            => /\ smallTransfers' = smallTransfers
               /\ thumbs' = thumbs
               /\ lastDocCall'.ret = ThumbRef(thumbs[ThumbKey(id, thumbSize)])]_vars

\* C2 witness: a downloadDocThumb call has returned the promise of a transfer
\* that had already resolved.
C2_Witness ==
    /\ lastDocCall.op = "downloadDocThumb"
    /\ lastDocCall.ret.kind = "thumbUrl"
    /\ smallTransfers[lastDocCall.ret.idx].st = "resolved"

\* hasDownloadedThumb(id, thumbSize) on the manager as it is
HasThumb(id, thumbSize) == HasDownloadedThumb(Docs, id, thumbSize)

\* The downloadSmallFile calls made for a key
SmallTransfersOf(all, id, thumbSize) ==
    {n \in DOMAIN all : all[n].id = id /\ all[n].thumbSize = thumbSize}

\* C22: a downloadDocThumb(id, size) call that makes a downloadSmallFile
\* call leaves hasDownloadedThumb(id, size) true, with the transfer still
\* pending; once true it stays true, and no further downloadSmallFile call is
\* made for the key; when the transfer has failed, a later
\* downloadDocThumb(id, size) returns the promise this.thumbs keeps, which is
\* the rejected one.
C22_ThumbEntriesPermanent ==
    [][\A id \in DocIds, thumbSize \in ThumbSizes :
          LET key == ThumbKey(id, thumbSize) IN
          /\ (IsDownloadDocThumbStep(id, thumbSize) /\ smallTransfers' # smallTransfers)
             => /\ HasThumb(id, thumbSize)'
                /\ smallTransfers'[thumbs'[key]].st = "pending"
          /\ HasThumb(id, thumbSize)
             => /\ HasThumb(id, thumbSize)'
                /\ thumbs'[key] = thumbs[key]
                /\ SmallTransfersOf(smallTransfers', id, thumbSize)
                      = SmallTransfersOf(smallTransfers, id, thumbSize)
          /\ (/\ IsDownloadDocThumbStep(id, thumbSize)
              /\ HasThumb(id, thumbSize)
              /\ smallTransfers[thumbs[key]].st = "rejected")
             => /\ lastDocCall'.ret = ThumbRef(thumbs[key])
                /\ smallTransfers'[thumbs[key]].st = "rejected"]_vars

\* C22 witness: a downloadDocThumb call has returned the promise of a
\* transfer that had failed, and hasDownloadedThumb is true for its key.
C22_Witness ==
    /\ lastDocCall.op = "downloadDocThumb"
    /\ lastDocCall.ret.kind = "thumbUrl"
    /\ smallTransfers[lastDocCall.ret.idx].st = "rejected"
    /\ HasThumb(lastDocCall.id, lastDocCall.thumbSize)

\* C3: downloadDoc and downloadDocThumb on an empty document return a
\* rejected promise, make no downloadFile and no downloadSmallFile call, and
\* leave the descriptors and this.thumbs unchanged.
C3_EmptyDocumentRejected ==
    [][\A id \in DocIds :
          (/\ lastDocCall'.op \in {"downloadDoc", "downloadDocThumb"}
           /\ lastDocCall'.id = id
           /\ MapHas(docs, id)
           /\ docs[id].kind = "documentEmpty")
          => /\ lastDocCall'.ret = Rejected
             /\ transfers' = transfers
             /\ smallTransfers' = smallTransfers
             /\ docs' = docs
             /\ thumbs' = thumbs]_vars

\* C3 witness: downloadDocThumb was called on an empty document while the
\* thumbnail of another document is cached.
C3_Witness ==
    /\ lastDocCall.op = "downloadDocThumb"
    /\ docs[lastDocCall.id].kind = "documentEmpty"
    /\ lastDocCall.ret = Rejected
    /\ thumbs # EmptyMap

\* The transfers for a document that have succeeded
Succeeded(id) ==
    {n \in DOMAIN transfers : transfers[n].id = id /\ transfers[n].st = "resolved"}

\* C16: a document is marked downloaded only if a transfer for it has
\* succeeded; when a transfer fails the descriptors are left as they are and
\* no transfer call is made; a transfer call is made only by a downloadDoc
\* call, which returns the promise of that very call, so that the caller sees
\* the transfer's own failure.
C16_NoRetryTruthfulFlag ==
    /\ [](\A id \in DOMAIN docs : docs[id].downloaded => Succeeded(id) # {})
    /\ [][\A n \in DOMAIN transfers :
            (transfers[n].st = "pending" /\ transfers'[n].st = "rejected")
            => /\ docs' = docs
               /\ Len(transfers') = Len(transfers)]_vars
    /\ [][Len(transfers') # Len(transfers)
          => /\ lastDocCall'.op = "downloadDoc"
             /\ Len(transfers') = Len(transfers) + 1
             /\ lastDocCall'.ret = TransferRef(Len(transfers'))]_vars

\* C16 witness: the first transfer of a document has failed, the document is
\* not marked downloaded, and a later downloadDoc call has made a second one.
C16_Witness ==
    /\ lastDocCall.op = "downloadDoc"
    /\ lastDocCall.ret = TransferRef(2)
    /\ transfers[1].id = lastDocCall.id
    /\ transfers[1].st = "rejected"
    /\ ~docs[lastDocCall.id].downloaded

-----------------------------------------------------------------------------
\* Properties of saveDocFile (checked under SpecSave)

\* The promise downloadDoc returned has resolved / has settled
FetchResolved(f) ==
    \/ f \in {ResolvedNull, ResolvedBlob}
    \/ f.kind = "downloadFile" /\ transfers[f.idx].st = "resolved"

FetchSettled(f) ==
    \/ f \in {ResolvedNull, ResolvedBlob, Rejected}
    \/ f.kind = "downloadFile" /\ transfers[f.idx].st # "pending"

\* The saveDocFile calls that have returned
Returned == {s \in DOMAIN saves : saves[s].st = "returned"}

\* C17: a saveDocFile call returns a promise in both branches; one that got
\* no writer (chooseSaveFile threw or writer.ready rejected) has called
\* downloadDoc without a writer and returned its promise, which is a rejected
\* one only for an empty document; FileManager.download has been called, once,
\* exactly when that promise has resolved, and no writer is closed.
C17_SaveTargetFallback ==
    \A s \in Returned :
        /\ saves[s].promise # NoFuture
        /\ ~saves[s].sink
           => /\ saves[s].promise = Rejected
                 => docs[saves[s].id].kind = "documentEmpty"
              /\ saves[s].promise.kind = "downloadFile"
                 => transfers[saves[s].promise.idx].id = saves[s].id
              /\ Len(saves[s].handed) = IF FetchResolved(saves[s].promise) THEN 1 ELSE 0
              /\ saves[s].closed = 0

\* C17 witness: two saveDocFile calls got no writer; the transfer of the
\* first has resolved and its blob was handed to FileManager.download, the
\* transfer of the second is in flight.
C17_Witness ==
    /\ Len(saves) = 2
    /\ \A s \in {1, 2} : s \in Returned /\ ~saves[s].sink
    /\ saves[1].promise = TransferRef(1)
    /\ saves[1].handed = << "blob" >>
    /\ saves[2].promise = TransferRef(2)
    /\ transfers[2].st = "pending"

\* C18: a saveDocFile call that got a writer and gave it to downloadDoc has
\* called writer.close() exactly once when the fetch has settled, resolved or
\* rejected, and not before.
C18_SaveTargetReleased ==
    \A s \in Returned :
        saves[s].sink
        => saves[s].closed = IF FetchSettled(saves[s].promise) THEN 1 ELSE 0

\* C21: whatever the catch branch of saveDocFile hands to
\* FileManager.download is the content of the document, never null: also
\* when the document is marked downloaded and has its object URL.
C21_SavedBytesReal ==
    \A s \in DOMAIN saves :
       ~saves[s].sink =>
          \A i \in DOMAIN saves[s].handed : saves[s].handed[i] = "blob"

-----------------------------------------------------------------------------
\* Properties of the registry (checked under SpecRegistry)

\* The attributes of a list that have the tag
WithTag(attributes, tag) ==
    {i \in DOMAIN attributes : attributes[i].tag = tag}

\* C15: saveDoc for an id of the registry adds no descriptor; and when the
\* descriptor has only a placeholder thumbnail (one without bytes) and the
\* document saved has a thumbnail with bytes and a filename attribute, the
\* descriptor then has that file name and that thumbnail first in its list.
C15_ResaveMergesFilenameAndThumb ==
    [][\A id \in RegistryIds, apiDoc \in RegistryDocs :
          (SaveDoc(id, apiDoc) /\ MapHas(docs, id))
          => LET names == WithTag(apiDoc.attributes, "documentAttributeFilename") IN
             /\ DOMAIN docs' = DOMAIN docs
             /\ (/\ docs[id].thumbs = << Thumb(FALSE) >>
                 /\ docs[id].file_name = ""
                 /\ apiDoc.thumbs = << Thumb(TRUE) >>
                 /\ names # {})
                => /\ docs'[id].thumbs[1] = Thumb(TRUE)
                   /\ \E i \in names :
                         docs'[id].file_name = apiDoc.attributes[i].file_name]_vars

\* The type the fixed precedence audio / voice > video / round > sticker >
\* animated gif gives a document, whatever the order of its attributes.  An
\* attribute counts when it is one that sets a type: a sticker attribute on
\* an image/webp document, an animated one on a gif or mp4 document with
\* thumbs; an image size sets none.
PrecedenceType(apiDoc) ==
    LET attrs == apiDoc.attributes
        audio == WithTag(attrs, "documentAttributeAudio")
        video == WithTag(attrs, "documentAttributeVideo")
        sticker == WithTag(attrs, "documentAttributeSticker")
        animated == WithTag(attrs, "documentAttributeAnimated")
    IN  IF audio # {}
        THEN IF \E i \in audio : attrs[i].voice THEN "voice" ELSE "audio"
        ELSE IF video # {}
        THEN IF apiDoc.thumbs # << >> /\ \E i \in video : attrs[i].round_message
             THEN "round" ELSE "video"
        ELSE IF sticker # {} /\ apiDoc.mime_type = "image/webp" THEN "sticker"
        ELSE IF /\ animated # {}
                /\ apiDoc.mime_type \in {"image/gif", "video/mp4"}
                /\ apiDoc.thumbs # << >>
        THEN "gif"
        ELSE ""

\* C19: the first saveDoc of an id gives the descriptor the type of the
\* fixed precedence, in whatever order the attributes come (audio and video:
\* audio; video and animated: video), and a later saveDoc of the id leaves
\* the type as it is.
C19_TypeByPrecedence ==
    [][\A id \in RegistryIds, apiDoc \in RegistryDocs :
          SaveDoc(id, apiDoc)
          => docs'[id].type = IF MapHas(docs, id) THEN docs[id].type
                              ELSE PrecedenceType(apiDoc)]_vars

-----------------------------------------------------------------------------
\* Properties of the state load (checked under SpecState)

\* Whether a returned future has resolved, and the value it resolved with
FutureResolved(ref) ==
    IF ref.kind = "all" THEN allPromises[ref.idx].st = "resolved" ELSE TRUE

FutureValue(ref) ==
    IF ref.kind = "all" THEN allPromises[ref.idx].val ELSE "state"

\* The promises addLoadPromise built for callers' dependencies: the first one
\* is the constructor's, for this.loaded alone.
DependencyFutures == {k \in DOMAIN allPromises : k > 1}

\* C4: the load sequence runs once (no key is read twice) and all the futures
\* that loadSavedState() / getState() returned, the constructor's included,
\* resolve to the same snapshot.
C4_LoadIdempotent ==
    /\ \A key \in StoreKeys : reads[key] <= 1
    /\ \A f, g \in returnedLoad :
          (FutureResolved(f) /\ FutureResolved(g)) => FutureValue(f) = FutureValue(g)

\* C5: the future addLoadPromise(d) returned resolves to the snapshot, a
\* defined object, whatever the order in which the load and the dependencies
\* settle, also when a dependency rejects (stated for the runs in which the
\* load itself has not failed).
C5_DependencyFutureResolvesToSnapshot ==
    \A k \in DependencyFutures :
        (allPromises[k].st = "resolved" /\ loaded.val # "error")
        => allPromises[k].val = "state"

\* C6: the future addLoadPromise(d) returned does not settle before the load
\* and every dependency registered up to and including d have settled,
\* resolved or rejected.
C6_FullyLoadedWaitsForAll ==
    \A k \in DependencyFutures :
        allPromises[k].st = "resolved"
        => \A i \in DOMAIN allPromises[k].waits :
              RefState(allPromises[k].waits[i]) \in {"resolved", "rejected"}

-----------------------------------------------------------------------------
\* Properties of the snapshot the load builds (checked under SpecLoad)

\* What a field holds when no step after the back-fill assigns it
StoredOrDefault(key) == IF storage[key].present THEN storage[key] ELSE Default(key)

\* The refresh condition on what the store holds: stateCreatedTime (the
\* default when none is stored) + REFRESH_EVERY < now
RefreshDue == StoredOrDefault("stateCreatedTime").val + REFRESH_EVERY < Now

\* The auth marker was found
AuthMarker == storage["user_auth"].present /\ storage["user_auth"].val # 0

RefreshableFields == REFRESH_KEYS \ {"stateCreatedTime"}

\* The records users (positive) / chats may keep through a refresh: those of
\* the peers of that sign that recentSearch lists
ListedRecords(key) ==
    {id \in storage[key].ids :
        /\ id \in StoredOrDefault("recentSearch").ids
        /\ (id > 0) = (key = "users")}

\* C13: the refresh fires exactly when stateCreatedTime + REFRESH_EVERY < now.
\* When it fires, after the load every refreshable field equals its default
\* and users / chats hold the stored records of the peers that recentSearch
\* lists and no other record; when it does not fire, the refreshable fields
\* and users / chats hold their stored values.
C13_RefreshPolicy ==
    state.defined
    => IF RefreshDue
       THEN /\ \A key \in RefreshableFields : state.fields[key] = Default(key)
            /\ \A key \in {"users", "chats"} :
                  state.fields[key].ids = ListedRecords(key)
       ELSE \A key \in RefreshableFields \cup {"users", "chats"} :
               state.fields[key] = StoredOrDefault(key)

\* C13 witness: a state created a day and a millisecond ago has been
\* refreshed: the stored dialogs are gone, the user that recentSearch lists is
\* kept and the chat it does not list is dropped.
C13_Witness ==
    /\ state.defined
    /\ storage["stateCreatedTime"] = Value(Now - REFRESH_EVERY - 1, {})
    /\ storage["dialogs"] = Value(2, {})
    /\ state.fields["dialogs"] = Default("dialogs")
    /\ storage["chats"].ids = {-1}
    /\ state.fields["chats"].ids = {}
    /\ state.fields["users"].ids = {1}

-----------------------------------------------------------------------------
\* Properties of the writes (checked under SpecStore)

\* The step is a setByKey / pushToState call that did not throw
IsWriteStep == lastStoreCall'.op \in {"setByKey", "pushToState"} /\ ~lastStoreCall'.threw

\* The sessionStorage.set calls made for a key, oldest first
WritesOf(key) == {i \in DOMAIN writes : writes[i].key = key}

\* The value of the latest sessionStorage.set call for a key
LastWritten(key) ==
    writes[CHOOSE i \in WritesOf(key) : \A j \in WritesOf(key) : j <= i].value

-----------------------------------------------------------------------------
\* Properties of the peer demand tracker (checked under SpecPeers)

Range(s) == {s[i] : i \in DOMAIN s}

\* The consumer types registered for a peer (empty when it has no entry)
Tags(np, peerId) == IF MapHas(np, peerId) THEN np[peerId] ELSE {}

\* The step is a call requestPeer(p, t, ...)
IsRequestPeerStep(p, t) ==
    /\ lastCall'.op = "requestPeer"
    /\ lastCall'.peerId = p
    /\ lastCall'.type = t

\* C7: requestPeer(p, t) with t already registered for p is a no-op: it
\* dispatches no event and leaves neededPeers and singlePeerMap unchanged
\* (with or without limit), so repeating the call adds no 'peerNeeded' event.
C7_RepeatedRequestIsNoOp ==
    [][\A p \in Peers, t \in Types :
          (IsRequestPeerStep(p, t) /\ t \in Tags(neededPeers, p))
          => /\ emitted' = << >>
             /\ neededPeers' = neededPeers
             /\ singlePeerMap' = singlePeerMap
             /\ lastCall'.result = "returned"]_vars

\* C7 witness: a requestPeer call that took the early return, on a peer
\* that is registered for the type.
C7_Witness ==
    /\ lastCall.op = "requestPeer"
    /\ emitted = << >>
    /\ lastCall.type \in Tags(neededPeers, lastCall.peerId)

\* C8 as claimed: 'peerNeeded' for p is dispatched only by a step in which p
\* goes from not needed to needed.
C8_NeededOnlyForNewPeer ==
    [][\A p \in Peers :
          Event("peerNeeded", p) \in Range(emitted') => ~MapHas(neededPeers, p)]_vars

\* C8 as amended: 'peerNeeded' for p is dispatched, exactly once, by every
\* requestPeer(p, t) call whose type t was not yet registered for p, also
\* when p already had other types, and by no other call.
C8_NeededForEveryNewType ==
    [][\A p \in Peers :
          LET n == Cardinality({i \in DOMAIN emitted' :
                                  emitted'[i] = Event("peerNeeded", p)})
              fresh == /\ lastCall'.op = "requestPeer"
                       /\ lastCall'.peerId = p
                       /\ lastCall'.type \notin Tags(neededPeers, p)
          IN  n = IF fresh THEN 1 ELSE 0]_vars

\* C8 witness: a requestPeer call has dispatched 'peerNeeded' for a peer
\* that holds more than one type, without evicting anybody.
C8_Witness ==
    /\ lastCall.op = "requestPeer"
    /\ ~lastCall.limit
    /\ emitted = << Event("peerNeeded", lastCall.peerId) >>
    /\ Cardinality(Tags(neededPeers, lastCall.peerId)) > 1

NoEmptyEntry ==
    \A p \in Peers : IsPeerNeeded(neededPeers, p) <=> (Tags(neededPeers, p) # {})

\* C10: in every reachable state isPeerNeeded(p) is true iff p's set of
\* types is non-empty (no entry with an empty set is kept), and a call of
\* isPeerNeeded returns that value, changes neither map and dispatches no
\* event.
C10_NeededIffTagged ==
    /\ []NoEmptyEntry
    /\ [][\A p \in Peers :
            (lastCall'.op = "isPeerNeeded" /\ lastCall'.peerId = p)
            => /\ neededPeers' = neededPeers
               /\ singlePeerMap' = singlePeerMap
               /\ emitted' = << >>
               /\ (lastCall'.result = "true") <=> (Tags(neededPeers, p) # {})]_vars

\* C10 witness: isPeerNeeded has answered false for a peer while another
\* peer is needed and every slot is taken (the asked peer may have been
\* evicted).
C10_Witness ==
    /\ lastCall.op = "isPeerNeeded"
    /\ lastCall.result = "false"
    /\ DOMAIN singlePeerMap = Types
    /\ DOMAIN neededPeers # {}

\* The step is a call that takes the slot of type t for p: keepPeerSingle(p, t),
\* or requestPeer(p, t, limit) that gets past its early return.
IsTakeSlotStep(p, t) ==
    \/ /\ lastCall'.op = "keepPeerSingle"
       /\ lastCall'.peerId = p
       /\ lastCall'.type = t
    \/ /\ IsRequestPeerStep(p, t)
       /\ lastCall'.limit
       /\ t \notin Tags(neededPeers, p)

\* C11: when the holder of the slot of type t is a peer with no entry in
\* neededPeers, taking the slot for another peer completes without throwing,
\* dispatches no 'peerUnneeded' and records the new peer as the holder.
C11_AbsentHolderEvictionIsNoOp ==
    [][\A p1, p2 \in Peers, t \in Types :
          (/\ IsTakeSlotStep(p2, t)
           /\ p1 # p2
           /\ SingleGet(singlePeerMap, t) = p1
           /\ ~MapHas(neededPeers, p1))
          => /\ lastCall'.result = "returned"
             /\ \A p \in Peers : Event("peerUnneeded", p) \notin Range(emitted')
             /\ SingleGet(singlePeerMap', t) = p2]_vars

\* C20: when requestPeer(p, t, limit) has returned, p is the holder of the
\* slot of t, and the peer that held the slot before the call, if another
\* one, no longer has the type: two peers that asked for the slot of t never
\* have t together.  This also when p had t already, from a call without
\* limit.
C20_SingleSlotExclusive ==
    [][\A p \in Peers, t \in Types :
          (/\ IsRequestPeerStep(p, t)
           /\ lastCall'.limit
           /\ lastCall'.result = "returned")
          => /\ SingleGet(singlePeerMap', t) = p
             /\ \A q \in Peers \ {p} :
                   SingleGet(singlePeerMap, t) = q => t \notin Tags(neededPeers', q)]_vars

-----------------------------------------------------------------------------

Init == InitPeers /\ InitState /\ InitStore /\ InitDocs

Next == NextPeers \/ NextState \/ NextStore \/ NextDocs \/ NextSave

\* The initial states in which the state manager is left alone
InitFirstRun == Init /\ storage = EmptyStorage

\* The load by itself, on every store of LoadStorages
InitLoad == InitPeers /\ InitDocs /\ InitStore /\ InitStateOn(LoadStorages)

NextLoad == Construct \/ LoadComplete \/ LoadFail

SpecLoad == InitLoad /\ [][NextLoad]_vars

\* The writes, after a load by itself
NextWrites == Construct \/ LoadComplete \/ LoadFail \/ NextStore

SpecStore == Init /\ [][NextWrites]_vars

\* The registry by itself, on the documents of RegistryDocs
NextRegistry == \E id \in RegistryIds, apiDoc \in RegistryDocs : SaveDoc(id, apiDoc)

SpecRegistry == InitFirstRun /\ [][NextRegistry]_vars

SpecSave == InitFirstRun /\ [][NextSave]_vars

SpecPeers == InitFirstRun /\ [][NextPeers]_vars

SpecState == Init /\ [][NextState]_vars

SpecDocs == InitFirstRun /\ [][NextDocs]_vars

Spec == Init /\ [][Next]_vars

====
